---- MODULE Spec2Model ----
(***************************************************************************)
(* Election-Explorer backend: the DataProcessor of                         *)
(* src/Backend/data_processor.py (loader, index builder, query methods)    *)
(* and the start-up code of src/Backend/app.py that builds it and serves   *)
(* queries against it.                                                     *)
(*                                                                         *)
(* A CSV file is a record [exists, header, rows]; a row is a function from *)
(* header names to cells; every cell is a string, and NaN is the cell      *)
(* pandas.read_csv produces for an empty field.  A DataFrame is            *)
(* [columns, rows].  Python dicts are functions, lists are sequences,      *)
(* floats are reduced fractions [k, n, d] with the two extra values None   *)
(* and nan.                                                                *)
(***************************************************************************)
EXTENDS Integers, Sequences, FiniteSets, TLC

VARIABLES fs, hash_seed, pc, data_processor, init_error, result, again

vars == <<fs, hash_seed, pc, data_processor, init_error, result, again>>

(***************************************************************************)
(* Bounds of the model.                                                    *)
(***************************************************************************)
NumYears == 2
NumDirs == 2
MaxRows == 2
MaxArgs == 2

(***************************************************************************)
(* Strings.  Python compares str by code point; Alphabet lists every       *)
(* string of the model in that order (digits < upper case < lower case).   *)
(***************************************************************************)
NaN == "NaN"

Alphabet ==
  << "1952", "1957", "1962", "1967", "2099",
     "Agra", "BJP", "Bihar", "Devi", "GEN", "Goa", "INC", "Rao", "SC", "XYZ",
     "Zira", "agra" >>

Ord(s) == CHOOSE i \in 1..Len(Alphabet) : Alphabet[i] = s

StrLess(a, b) == Ord(a) < Ord(b)

\* the characters of the names and queries of the model
Chars(s) == CASE s = "Agra" -> << "A", "g", "r", "a" >>
              [] s = "agra" -> << "a", "g", "r", "a" >>
              [] s = "Rao" -> << "R", "a", "o" >>
              [] s = "Devi" -> << "D", "e", "v", "i" >>
              [] s = "INC" -> << "I", "N", "C" >>
              [] s = "BJP" -> << "B", "J", "P" >>
              [] s = "ra" -> << "r", "a" >>
              [] s = "RA" -> << "R", "A" >>
              [] s = "r.o" -> << "r", ".", "o" >>
              [] s = "nc" -> << "n", "c" >>
              [] s = "." -> << "." >>

UpperCase == << "A", "B", "C", "D", "I", "J", "N", "P", "R" >>

LowerCase == << "a", "b", "c", "d", "i", "j", "n", "p", "r" >>

\* str.lower(), as the characters of the result
Lower(s) ==
  [i \in 1..Len(Chars(s)) |->
     IF \E k \in 1..Len(UpperCase) : UpperCase[k] = Chars(s)[i]
     THEN LowerCase[CHOOSE k \in 1..Len(UpperCase) : UpperCase[k] = Chars(s)[i]]
     ELSE Chars(s)[i]]

\* q in t, for character sequences
Contains(t, q) ==
  \E k \in 0..(Len(t) - Len(q)) : \A i \in 1..Len(q) : t[k + i] = q[i]

\* re.search(q, t) for a pattern of plain characters and dots: a dot
\* matches any character
ReSearch(q, t) ==
  \E k \in 0..(Len(t) - Len(q)) : \A i \in 1..Len(q) : q[i] = "." \/ t[k + i] = q[i]

\* str.strip() on the header names of the model
Strip(h) == CASE h = " PC Name" -> "PC Name"
              [] h = "Party " -> "Party"
              [] OTHER -> h

\* str.rstrip('%'): every trailing percent sign goes
RStripPercent(s) == CASE s = "40%" -> "40"
                      [] s = "70%" -> "70"
                      [] s = "10.0%" -> "10.0"
                      [] s = "0.5%" -> "0.5"
                      [] s = "1%" -> "1"
                      [] s = "20%" -> "20"
                      [] s = "25%" -> "25"
                      [] s = "%" -> ""
                      [] OTHER -> s

\* str.replace(',', '')
DropCommas(s) == CASE s = "1,000" -> "1000"
                   [] s = "2,000" -> "2000"
                   [] OTHER -> s

\* the texts int() accepts, with their values
IntTexts == {"1000", "2000", "500", "100", "40", "55", "70", "1", "20", "25"}

IntOf(s) == CASE s = "1000" -> 1000
              [] s = "2000" -> 2000
              [] s = "500" -> 500
              [] s = "100" -> 100
              [] s = "40" -> 40
              [] s = "55" -> 55
              [] s = "70" -> 70
              [] s = "1" -> 1
              [] s = "20" -> 20
              [] s = "25" -> 25
              [] OTHER -> 0

\* the texts float() accepts are the integer texts, "10.0" and "0.5"
FloatTexts == IntTexts \cup {"10.0", "0.5"}

\* float(s), counted in tenths
FloatOf(s) == CASE s = "10.0" -> 100
                [] s = "0.5" -> 5
                [] OTHER -> 10 * IntOf(s)

(***************************************************************************)
(* Floats.                                                                 *)
(***************************************************************************)
RECURSIVE Gcd(_, _)
Gcd(a, b) == IF b = 0 THEN a ELSE Gcd(b, a % b)

None == [k |-> "None", n |-> 0, d |-> 1]
nan == [k |-> "nan", n |-> 0, d |-> 1]

Num(n, d) == LET g == Gcd(n, d) IN
             IF n = 0 THEN [k |-> "num", n |-> 0, d |-> 1]
             ELSE [k |-> "num", n |-> n \div g, d |-> d \div g]

RECURSIVE SumSeq(_)
SumSeq(s) == IF s = <<>> THEN 0 ELSE Head(s) + SumSeq(Tail(s))

\* Series.mean() of a float column given as the sequence of its non-NaN
\* values, each counted in tenths
Mean(vals) == IF vals = <<>> THEN nan ELSE Num(SumSeq(vals), 10 * Len(vals))

(***************************************************************************)
(* Sequences and sets.                                                     *)
(***************************************************************************)
Range(s) == {s[i] : i \in 1..Len(s)}

RECURSIVE SelectSeqIdx(_, _)
\* the subsequence of s at the (ascending) positions in idx
SelectSeqIdx(s, idx) ==
  IF idx = {} THEN <<>>
  ELSE LET m == CHOOSE i \in idx : \A j \in idx : i <= j
       IN <<s[m]>> \o SelectSeqIdx(s, idx \ {m})

RECURSIVE SortedList(_)
\* sorted(list(S)) for a set S of strings
SortedList(S) ==
  IF S = {} THEN <<>>
  ELSE LET m == CHOOSE x \in S : \A y \in S : Ord(x) <= Ord(y)
       IN <<m>> \o SortedList(S \ {m})

RECURSIVE InsertSorted(_, _)
InsertSorted(x, s) ==
  IF s = <<>> THEN <<x>>
  ELSE IF StrLess(x, Head(s)) THEN <<x>> \o s
  ELSE <<Head(s)>> \o InsertSorted(x, Tail(s))

RECURSIVE ListSort(_)
\* list.sort() on a list of strings (stable insertion into the sorted tail)
ListSort(s) == IF s = <<>> THEN <<>> ELSE InsertSorted(Head(s), ListSort(Tail(s)))

\* list.index(x)
IndexOf(s, x) == CHOOSE i \in 1..Len(s) : s[i] = x /\ \A j \in 1..(i - 1) : s[j] # x

(***************************************************************************)
(* CSV files and DataFrames.                                               *)
(***************************************************************************)
Columns ==
  {"PC Name", "State", "Winning Candidate", "Party", "Votes", "Electors",
   "Margin", "Margin %", "Turnout"}

\* the same header as written in a file whose header cells carry blanks
PaddedHeader == (Columns \ {"PC Name", "Party"}) \cup {" PC Name", "Party "}

NoFile == [exists |-> FALSE, header |-> {}, rows |-> <<>>]

CsvFile(header, rows) == [exists |-> TRUE, header |-> header, rows |-> rows]

\* pd.read_csv(file_path, skiprows=0)
read_csv(file) == [columns |-> file.header, rows |-> file.rows]

\* df.columns = [col.strip() for col in df.columns]
StripColumns(df) ==
  LET raw(c) == CHOOSE h \in df.columns : Strip(h) = c
      cols == {Strip(h) : h \in df.columns}
  IN [columns |-> cols,
      rows |-> [i \in 1..Len(df.rows) |-> [c \in cols |-> df.rows[i][raw(c)]]]]

\* df[col] as the sequence of its cells
Column(df, col) == [i \in 1..Len(df.rows) |-> df.rows[i][col]]

\* row.get(col, '')
RowGet(df, row, col) == IF col \in df.columns THEN row[col] ELSE ""

\* the positions of the rows with df[col] == name (a NaN cell equals nothing)
RowsWhere(df, col, name) ==
  {i \in 1..Len(df.rows) : df.rows[i][col] # NaN /\ df.rows[i][col] = name}

\* df[col].unique() without its NaN
UniqueStrings(df, col) == {df.rows[i][col] : i \in 1..Len(df.rows)} \ {NaN}

HasNaN(df, col) == \E i \in 1..Len(df.rows) : df.rows[i][col] = NaN

(***************************************************************************)
(* DataProcessor.__init__ and _process_data.                               *)
(***************************************************************************)
AllYears ==
  << "1952", "1957", "1962", "1967" >>

\* the configured year labels (the keys of csv_files, in dict order)
csv_files == SubSeq(AllYears, 1, NumYears)

possible_data_dirs == 1..NumDirs

\* os.path.exists(os.path.join(data_dir, file_name))
PathExists(files, year, dir) == files[year][dir].exists

FileFound(files, year) == \E d \in possible_data_dirs : PathExists(files, year, d)

\* the inner loop without its break: the file of the last directory wins
LastDir(files, year) ==
  CHOOSE d \in possible_data_dirs :
    /\ PathExists(files, year, d)
    /\ \A e \in possible_data_dirs : e > d => ~PathExists(files, year, e)

\* the directory the inner loop breaks at
FirstDir(files, year) ==
  CHOOSE d \in possible_data_dirs :
    /\ PathExists(files, year, d)
    /\ \A e \in possible_data_dirs : e < d => ~PathExists(files, year, e)

RECURSIVE LoadYears(_, _)
\* self.years after the loading loop over the configured labels s
LoadYears(files, s) ==
  IF s = <<>> THEN <<>>
  ELSE (IF FileFound(files, Head(s)) THEN <<Head(s)>> ELSE <<>>)
       \o LoadYears(files, Tail(s))

\* self.data_by_year after the loading loop
LoadTables(files) ==
  [y \in {z \in Range(csv_files) : FileFound(files, z)} |->
     StripColumns(read_csv(files[y][FirstDir(files, y)]))]

\* what sorted(list(set)) is given for one column: the strings of the
\* tables that have the column, and one nan per table whose column holds NaN
IndexStrings(data_by_year, col) ==
  UNION {UniqueStrings(data_by_year[y], col) :
           y \in {z \in DOMAIN data_by_year : col \in data_by_year[z].columns}}

IndexNaNs(data_by_year, col) ==
  Cardinality({y \in DOMAIN data_by_year :
                 col \in data_by_year[y].columns /\ HasNaN(data_by_year[y], col)})

\* sorted() raises TypeError when it must compare a str with a float nan
SortRaises(data_by_year, col) ==
  IndexStrings(data_by_year, col) # {} /\ IndexNaNs(data_by_year, col) > 0

SortedIndex(data_by_year, col) ==
  IF IndexStrings(data_by_year, col) # {}
  THEN SortedList(IndexStrings(data_by_year, col))
  ELSE [i \in 1..IndexNaNs(data_by_year, col) |-> NaN]

_process_data_raises(data_by_year) ==
  \/ SortRaises(data_by_year, "PC Name")
  \/ SortRaises(data_by_year, "Party")
  \/ SortRaises(data_by_year, "State")

Unbound ==
  [bound |-> FALSE, data_by_year |-> [y \in {} |-> 0], years |-> <<>>,
   constituencies |-> <<>>, parties |-> <<>>, states |-> <<>>]

\* __init__ with a check that raises when no year file was found
DataProcessorNeedingYears(files, read_error) ==
  LET data_by_year == LoadTables(files)
      years == ListSort(LoadYears(files, csv_files))
  IN IF years = <<>> \/ read_error \/ _process_data_raises(data_by_year)
     THEN [raised |-> TRUE, self |-> Unbound]
     ELSE [raised |-> FALSE,
           self |-> [bound |-> TRUE,
                     data_by_year |-> data_by_year,
                     years |-> years,
                     constituencies |-> SortedIndex(data_by_year, "PC Name"),
                     parties |-> SortedIndex(data_by_year, "Party"),
                     states |-> SortedIndex(data_by_year, "State")]]

\* DataProcessor(): the object built, or raised = TRUE when __init__ re-raises.
\* read_error is the file read of line 62 failing.
DataProcessor(files, read_error) ==
  LET data_by_year == LoadTables(files)
      years == ListSort(LoadYears(files, csv_files))
  IN IF (read_error /\ years # <<>>) \/ _process_data_raises(data_by_year)
     THEN [raised |-> TRUE, self |-> Unbound]
     ELSE [raised |-> FALSE,
           self |-> [bound |-> TRUE,
                     data_by_year |-> data_by_year,
                     years |-> years,
                     constituencies |-> SortedIndex(data_by_year, "PC Name"),
                     parties |-> SortedIndex(data_by_year, "Party"),
                     states |-> SortedIndex(data_by_year, "State")]]

(***************************************************************************)
(* The files the program may find at start-up.                             *)
(***************************************************************************)
DefaultRow ==
  [c \in Columns |->
     CASE c = "PC Name" -> "Agra"
       [] c = "State" -> "Bihar"
       [] c = "Winning Candidate" -> "Rao"
       [] c = "Party" -> "INC"
       [] c = "Votes" -> "1,000"
       [] c = "Electors" -> "2,000"
       [] c = "Margin" -> "100"
       [] c = "Margin %" -> "10.0%"
       [] c = "Turnout" -> "40%"]

Row2(c1, v1, c2, v2) == [DefaultRow EXCEPT ![c1] = v1, ![c2] = v2]

\* rows that differ in state and turnout: a turnout that parses, one that is
\* missing, one that is malformed
TurnoutRows ==
  { Row2("State", "Bihar", "Turnout", "40%"),
    Row2("State", "Goa", "Turnout", "70%"),
    Row2("State", "Goa", "Turnout", NaN),
    Row2("State", "Bihar", "Turnout", "x") }

\* rows that differ in state and party, one with the party missing
PartyRows ==
  { Row2("State", "Bihar", "Party", "INC"),
    Row2("State", "Bihar", "Party", "BJP"),
    Row2("State", "Goa", "Party", "INC"),
    Row2("State", "Bihar", "Party", NaN) }

\* rows that differ in constituency and winner
ConstituencyRows ==
  { Row2("PC Name", "Agra", "Winning Candidate", "Rao"),
    Row2("PC Name", "Agra", "Winning Candidate", "Devi"),
    Row2("PC Name", "agra", "Winning Candidate", "Rao") }

SeqsUpTo(S, n) == UNION {[1..k -> S] : k \in 0..n}

ConfiguredYears == Range(csv_files)

RECURSIVE TotalRows(_, _)
TotalRows(g, ys) ==
  IF ys = {} THEN 0
  ELSE LET y == CHOOSE z \in ys : TRUE
       IN Len(g[y].rows) + TotalRows(g, ys \ {y})

\* a year has a file when it has rows: the file lies in the first directory
\* and holds rows of R; the files hold at most MaxRows rows in all
RowSlice(R) ==
  LET files == {NoFile} \cup
               {CsvFile(Columns, rows) : rows \in SeqsUpTo(R, MaxRows) \ {<<>>}}
      picks == {g \in [ConfiguredYears -> files] : TotalRows(g, ConfiguredYears) <= MaxRows}
  IN {[y \in ConfiguredYears |->
         [d \in possible_data_dirs |-> IF d = 1 THEN g[y] ELSE NoFile]] : g \in picks}

\* the file of a year in directory d: d rows, and a padded header in every
\* second directory, so that the files of two directories differ
DirFile(d) ==
  IF d % 2 = 0
  THEN CsvFile(PaddedHeader,
               [i \in 1..d |-> [h \in PaddedHeader |-> DefaultRow[Strip(h)]]])
  ELSE CsvFile(Columns, [i \in 1..d |-> DefaultRow])

\* any year's file may lie in any of the directories
DirSlice ==
  {[y \in ConfiguredYears |->
      [d \in possible_data_dirs |-> IF b[y][d] THEN DirFile(d) ELSE NoFile]] :
     b \in [ConfiguredYears -> [possible_data_dirs -> BOOLEAN]]}

\* the first year's file holds three rows won by two parties, so that a
\* party's share of the seats is no whole number of percent; every other year
\* has no file or a file of one row
ShareSlice ==
  LET shares == [1..3 -> {Row2("State", "Bihar", "Party", "INC"),
                          Row2("State", "Bihar", "Party", "BJP")}]
      others == {NoFile, CsvFile(Columns, <<DefaultRow>>)}
  IN {[y \in ConfiguredYears |->
         [d \in possible_data_dirs |->
            IF d # 1 THEN NoFile
            ELSE IF y = csv_files[1] THEN CsvFile(Columns, rows) ELSE g[y]]] :
        rows \in shares, g \in [ConfiguredYears -> others]}

\* the margins a row may carry: below, at and above the two thresholds, a
\* missing one, a malformed one and one written without its percent sign
MarginCells == << "0.5%", "1%", "20%", "25%", NaN, "x", "10.0" >>

\* the first year's file holds three rows with any margins (the order of the
\* rows is of no account, so the margins come in the order of MarginCells);
\* the last year has no file or a file without the margin column
MarginSlice ==
  LET picks == {p \in [1..3 -> 1..Len(MarginCells)] : p[1] <= p[2] /\ p[2] <= p[3]}
      rows(p) == [i \in 1..3 |-> [DefaultRow EXCEPT !["Margin %"] = MarginCells[p[i]]]]
      header == Columns \ {"Margin %"}
      others == {NoFile, CsvFile(header, <<[h \in header |-> DefaultRow[h]]>>)}
  IN {[y \in ConfiguredYears |->
         [d \in possible_data_dirs |->
            IF d # 1 THEN NoFile
            ELSE IF y = csv_files[1] THEN CsvFile(Columns, rows(p))
            ELSE IF y = csv_files[Len(csv_files)] THEN other
            ELSE NoFile]] :
        p \in picks, other \in others}

\* the header of a file that has the reservation type of the constituency
TypeColumns == Columns \cup {"Type"}

TypeRow(type, party, turnout) ==
  [c \in TypeColumns |->
     CASE c = "Type" -> type
       [] c = "Party" -> party
       [] c = "Turnout" -> turnout
       [] OTHER -> DefaultRow[c]]

\* rows that differ in type, party and turnout, one with the type missing
TypeRows ==
  { TypeRow("GEN", "INC", "40%"),
    TypeRow("SC", "BJP", "x"),
    TypeRow(NaN, "INC", "40%") }

\* the first year's file has the type column and rows of TypeRows; the last
\* year has no file, a file of one row without the type column, or a file
\* of one row with it
TypeSlice ==
  LET firsts == {CsvFile(TypeColumns, rows) : rows \in SeqsUpTo(TypeRows, MaxRows) \ {<<>>}}
      lasts == {NoFile, CsvFile(Columns, <<DefaultRow>>),
                CsvFile(TypeColumns, <<TypeRow("GEN", "INC", "40%")>>),
                CsvFile(TypeColumns, <<TypeRow("SC", "BJP", "x")>>)}
  IN {[y \in ConfiguredYears |->
         [d \in possible_data_dirs |->
            IF d # 1 THEN NoFile
            ELSE IF y = csv_files[1] THEN first
            ELSE IF y = csv_files[Len(csv_files)] THEN last
            ELSE NoFile]] :
        first \in firsts, last \in lasts}

FileSystems ==
  RowSlice(TurnoutRows) \cup RowSlice(PartyRows) \cup RowSlice(ConstituencyRows)
    \cup DirSlice \cup ShareSlice \cup MarginSlice \cup TypeSlice

(***************************************************************************)
(* app.py: building the DataProcessor, then serving.                       *)
(***************************************************************************)
NoResult == [op |-> "none", arg |-> "", val |-> None]

\* the hash orders looked at: both where the files name two winners, else one
HashSeeds(files) ==
  LET winners == UNION {{files[y][d].rows[i]["Winning Candidate"] :
                           i \in 1..Len(files[y][d].rows)} :
                          y \in ConfiguredYears, d \in possible_data_dirs}
  IN IF Cardinality(winners) >= 2 THEN {0, 1} ELSE {0}

\* whether the read of line 62 may fail: looked at where a file lies
\* outside the first directory
ReadErrors(files) ==
  IF \E y \in ConfiguredYears, d \in possible_data_dirs : d > 1 /\ files[y][d].exists
  THEN BOOLEAN ELSE {FALSE}

Init ==
  /\ fs \in FileSystems
  /\ hash_seed \in HashSeeds(fs)
  /\ pc = "init"
  /\ data_processor = Unbound
  /\ init_error = FALSE
  /\ result = NoResult
  /\ again = "first"

\* app.py lines 22-23: try: data_processor = DataProcessor()
InitDataProcessor ==
  /\ pc = "init"
  /\ \E read_error \in ReadErrors(fs) :
       LET r == DataProcessor(fs, read_error)
       IN IF r.raised
          THEN /\ pc' = "except"
               /\ init_error' = TRUE
               /\ data_processor' = Unbound
          ELSE /\ pc' = "serving"
               /\ init_error' = init_error
               /\ data_processor' = r.self
  /\ UNCHANGED <<fs, hash_seed, result, again>>

\* app.py lines 24-27: except: log, then data_processor = DataProcessor()
\* again; if that raises too the import of app.py fails
FallbackDataProcessor ==
  /\ pc = "except"
  /\ \E read_error \in ReadErrors(fs) :
       LET r == DataProcessor(fs, read_error)
       IN IF r.raised
          THEN /\ pc' = "crashed"
               /\ data_processor' = Unbound
          ELSE /\ pc' = "serving"
               /\ data_processor' = r.self
  /\ UNCHANGED <<fs, hash_seed, init_error, result, again>>

\* get_party_trends hands out self.years itself; a caller or the method
\* reversing that list in place changes the DataProcessor
SelfAfterReversingYears(self, op) ==
  IF op = "get_party_trends"
  THEN [self EXCEPT !.years = [i \in 1..Len(@) |-> @[Len(@) + 1 - i]]]
  ELSE self

\* the DataProcessor after a query method has run: no method assigns to a
\* field of self or changes a list or table it holds
SelfAfter(self, op) == self

\* A route handler runs the method and answers with what it returned.
\* result is the request under observation and its latest answer: a handler
\* runs for a first request, or for the observed request made again.
Serve(op, arg, val) ==
  /\ pc = "serving"
  /\ result.op = "none" \/ (result.op = op /\ result.arg = arg)
  /\ result' = [op |-> op, arg |-> arg, val |-> val]
  /\ again' = IF result.op = "none" THEN "first"
               ELSE IF result.val = val THEN "same" ELSE "changed"
  /\ data_processor' = SelfAfter(data_processor, op)
  /\ UNCHANGED <<fs, hash_seed, pc, init_error>>

\* the answer has been sent; the next request observed may be any request
Respond ==
  /\ pc = "serving"
  /\ result.op # "none"
  /\ result' = NoResult
  /\ again' = "first"
  /\ UNCHANGED <<fs, hash_seed, pc, data_processor, init_error>>

(***************************************************************************)
(* The query methods.                                                      *)
(***************************************************************************)
get_years(self) == self.years

get_constituencies(self) == self.constituencies

get_parties(self) == self.parties

\* get_states computes the list again from the tables
get_states(self) ==
  IF SortRaises(self.data_by_year, "State") THEN [raised |-> "TypeError"]
  ELSE SortedIndex(self.data_by_year, "State")

\* the positions of all rows of df
AllRows(df) == 1..Len(df.rows)

\* read_csv gives a column the dtype object (str cells, usable with .str)
\* when it is empty or holds a cell that is no number, else a numeric dtype
IsStrColumn(df, col) ==
  \/ Len(df.rows) = 0
  \/ \E i \in AllRows(df) : df.rows[i][col] # NaN /\ df.rows[i][col] \notin FloatTexts

\* rows[col].str.rstrip('%').astype(float) raises: KeyError without the
\* column, AttributeError on a numeric column, ValueError on a cell that is
\* no number once its percent signs are gone
PercentRaises(df, col, idx) ==
  \/ col \notin df.columns
  \/ ~IsStrColumn(df, col)
  \/ \E i \in idx : df.rows[i][col] # NaN /\ RStripPercent(df.rows[i][col]) \notin FloatTexts

\* the non-NaN values of rows[col].str.rstrip('%').astype(float)
PercentValues(df, col, idx) ==
  LET present == {i \in idx : df.rows[i][col] # NaN}
      cells == SelectSeqIdx(Column(df, col), present)
  IN [i \in 1..Len(cells) |-> FloatOf(RStripPercent(cells[i]))]

\* try: rows['Turnout'].str.rstrip('%').astype(float).mean() except: None
TurnoutMean(df, idx) ==
  IF PercentRaises(df, "Turnout", idx) THEN None
  ELSE Mean(PercentValues(df, "Turnout", idx))

\* rows[col].value_counts().to_dict(): NaN cells are not counted
ValueCounts(df, col, idx) ==
  LET keys == {df.rows[i][col] : i \in idx} \ {NaN}
  IN [p \in keys |-> Cardinality({i \in idx : df.rows[i][col] = p})]

\* int(str(cell).replace(',', '')) succeeds
IntParses(cell) == cell # NaN /\ DropCommas(cell) \in IntTexts

\* a year table without the column makes df[col] raise KeyError
LacksColumn(self, col) ==
  \E y \in DOMAIN self.data_by_year : col \notin self.data_by_year[y].columns

KeyError == [raised |-> "KeyError"]

ConstituencySummary(df, row) ==
  LET base == [constituency |-> RowGet(df, row, "PC Name"),
               state |-> RowGet(df, row, "State"),
               winner |-> RowGet(df, row, "Winning Candidate"),
               party |-> RowGet(df, row, "Party"),
               margin_percent |-> RowGet(df, row, "Margin %")]
  IN IF /\ "Votes" \in df.columns /\ "Electors" \in df.columns
        /\ IntParses(row["Votes"]) /\ IntParses(row["Electors"])
     THEN [votes |-> IntOf(DropCommas(row["Votes"])),
           electors |-> IntOf(DropCommas(row["Electors"]))] @@ base
     ELSE base

get_election_data(self, year) ==
  IF year \notin DOMAIN self.data_by_year
  THEN [error |-> <<"No data available for year", year>>]
  ELSE LET df == self.data_by_year[year]
       IN IF "Party" \notin df.columns THEN KeyError
          ELSE [year |-> year,
                party_seats |-> ValueCounts(df, "Party", AllRows(df)),
                constituencies |->
                  [i \in AllRows(df) |-> ConstituencySummary(df, df.rows[i])],
                avg_turnout |-> TurnoutMean(df, AllRows(df))]

\* iloc[-1] in place of iloc[0]
LastRow(idx) == CHOOSE i \in idx : \A j \in idx : i >= j

\* constituency_rows.iloc[0]: the first matching row in table order
FirstRow(idx) == CHOOSE i \in idx : \A j \in idx : i <= j

RECURSIVE ConstituencyResults(_, _, _)
\* the results list after the loop over the years list ys
ConstituencyResults(self, name, ys) ==
  IF ys = <<>> THEN <<>>
  ELSE LET df == self.data_by_year[Head(ys)]
           constituency_rows == RowsWhere(df, "PC Name", name)
           row == df.rows[FirstRow(constituency_rows)]
       IN (IF constituency_rows # {}
           THEN <<[year |-> Head(ys),
                   winner |-> RowGet(df, row, "Winning Candidate"),
                   party |-> RowGet(df, row, "Party"),
                   votes |-> RowGet(df, row, "Votes"),
                   margin |-> RowGet(df, row, "Margin"),
                   margin_percent |-> RowGet(df, row, "Margin %"),
                   turnout |-> RowGet(df, row, "Turnout")]>>
           ELSE <<>>)
          \o ConstituencyResults(self, name, Tail(ys))

get_constituency_data(self, name) ==
  IF LacksColumn(self, "PC Name") THEN KeyError
  ELSE [name |-> name, results |-> ConstituencyResults(self, name, self.years)]

\* round(seats_won / total_seats * 100, 2), in hundredths: the nearest
\* hundredth, the even one on a tie
RoundedPercent(seats_won, total_seats) ==
  LET q == (seats_won * 10000) \div total_seats
      r == (seats_won * 10000) % total_seats
      h == IF 2 * r > total_seats THEN q + 1
           ELSE IF 2 * r < total_seats THEN q
           ELSE IF q % 2 = 0 THEN q ELSE q + 1
  IN Num(h, 100)

PartyPerformance(df, year, name) ==
  LET party_rows == RowsWhere(df, "Party", name)
      won == SelectSeqIdx(df.rows, party_rows)
  IN IF party_rows # {}
     THEN [year |-> year,
           seats_won |-> Cardinality(party_rows),
           total_seats |-> Len(df.rows),
           percentage |-> RoundedPercent(Cardinality(party_rows), Len(df.rows)),
           constituencies |->
             [i \in 1..Len(won) |->
                [name |-> RowGet(df, won[i], "PC Name"),
                 winner |-> RowGet(df, won[i], "Winning Candidate"),
                 margin_percent |-> RowGet(df, won[i], "Margin %")]]]
     ELSE [year |-> year,
           seats_won |-> 0,
           total_seats |-> Len(df.rows),
           percentage |-> Num(0, 1),
           constituencies |-> <<>>]

\* the zero-seat branch left out, as in get_constituency_data
get_party_data_skipping(self, name) ==
  LET won(year) == RowsWhere(self.data_by_year[year], "Party", name) # {}
      ys == SelectSeq(self.years, won)
  IN [name |-> name,
      performance |->
        [i \in 1..Len(ys) |-> PartyPerformance(self.data_by_year[ys[i]], ys[i], name)]]

get_party_data(self, name) ==
  IF LacksColumn(self, "Party") THEN KeyError
  ELSE [name |-> name,
        performance |->
          [i \in 1..Len(self.years) |->
             PartyPerformance(self.data_by_year[self.years[i]], self.years[i], name)]]

\* len(df[df['Party'] == party])
Seats(df, party) == Cardinality(RowsWhere(df, "Party", party))

\* value_counts().head(TopParties).index: the parties of the largest counts,
\* equal counts in the order of first appearance
TopParties == 10

HeadParties(df) ==
  LET counts == ValueCounts(df, "Party", AllRows(df))
      first(p) == FirstRow(RowsWhere(df, "Party", p))
      before(q, p) == \/ counts[q] > counts[p]
                      \/ counts[q] = counts[p] /\ first(q) < first(p)
  IN {p \in DOMAIN counts :
        Cardinality({q \in DOMAIN counts : before(q, p)}) < TopParties}

\* compare_years once every requested year is known to be loaded
CompareLoaded(self, years) ==
  IF \E i \in 1..Len(years) : "Party" \notin self.data_by_year[years[i]].columns
  THEN KeyError
  ELSE LET top_parties ==
             UNION {HeadParties(self.data_by_year[years[i]]) : i \in 1..Len(years)}
       IN [years |-> years,
           party_performance |->
             [party \in top_parties |->
                [i \in 1..Len(years) |->
                   [year |-> years[i],
                    seats |-> Seats(self.data_by_year[years[i]], party)]]],
           turnout_comparison |->
             [i \in 1..Len(years) |->
                [year |-> years[i],
                 avg_turnout |-> TurnoutMean(self.data_by_year[years[i]],
                                             AllRows(self.data_by_year[years[i]]))]]]

\* the guard written with any() in place of all(): a request is refused only
\* when none of its years is loaded
compare_years_any(self, years) ==
  IF years # <<>> /\ \A i \in 1..Len(years) : years[i] \notin Range(self.years)
  THEN [error |-> "One or more specified years not found in data"]
  ELSE IF \E i \in 1..Len(years) : years[i] \notin DOMAIN self.data_by_year
  THEN KeyError
  ELSE CompareLoaded(self, years)

compare_years(self, years) ==
  IF \E i \in 1..Len(years) : years[i] \notin Range(self.years)
  THEN [error |-> "One or more specified years not found in data"]
  ELSE CompareLoaded(self, years)

compare_parties(self, parties) ==
  IF parties # <<>> /\ LacksColumn(self, "Party") THEN KeyError
  ELSE [parties |-> parties,
        data |->
          [i \in 1..Len(self.years) |->
             [year |-> self.years[i],
              party_seats |->
                [party \in Range(parties) |->
                   Seats(self.data_by_year[self.years[i]], party)]]]]

\* while len(series) <= year_index: series.append(fill), year_index counted
\* from 0; n is the length reached
PadTo(series, n, fill) ==
  series \o [i \in 1..(n - Len(series)) |-> fill]

\* one pass of the loop of get_turnout_data
TurnoutYear(df, year, td) ==
  IF PercentRaises(df, "Turnout", AllRows(df)) THEN td
  ELSE LET years == Append(td.years, year)
           year_index == IndexOf(years, year)
           states == IF "State" \in df.columns THEN UniqueStrings(df, "State") ELSE {}
           old(st) == IF st \in DOMAIN td.state_turnout
                      THEN td.state_turnout[st] ELSE <<>>
           turnout(st) == Mean(PercentValues(df, "Turnout", RowsWhere(df, "State", st)))
       IN [years |-> years,
           avg_turnout |->
             Append(td.avg_turnout, Mean(PercentValues(df, "Turnout", AllRows(df)))),
           state_turnout |->
             [st \in DOMAIN td.state_turnout \cup states |->
                IF st \in states
                THEN [PadTo(old(st), year_index, None) EXCEPT ![year_index] = turnout(st)]
                ELSE td.state_turnout[st]]]

RECURSIVE TurnoutLoop(_, _, _)
TurnoutLoop(self, ys, td) ==
  IF ys = <<>> THEN td
  ELSE TurnoutLoop(self, Tail(ys), TurnoutYear(self.data_by_year[Head(ys)], Head(ys), td))

get_turnout_data(self) ==
  TurnoutLoop(self, self.years,
              [years |-> <<>>, avg_turnout |-> <<>>, state_turnout |-> [st \in {} |-> <<>>]])

\* the loaded years in the order the dict data_by_year was filled
DictOrder(self) ==
  LET loaded(y) == y \in DOMAIN self.data_by_year
  IN SelectSeq(csv_files, loaded)

RECURSIVE Dedup(_, _)
\* the distinct strings of s in the order of first appearance, NaN left out
Dedup(s, seen) ==
  IF s = <<>> THEN <<>>
  ELSE IF Head(s) \in seen \/ Head(s) = NaN THEN Dedup(Tail(s), seen)
  ELSE <<Head(s)>> \o Dedup(Tail(s), seen \cup {Head(s)})

RECURSIVE PartyCells(_, _)
\* the Party cells of the tables of the years ys, one table after the other
PartyCells(self, ys) ==
  IF ys = <<>> THEN <<>>
  ELSE Column(self.data_by_year[Head(ys)], "Party") \o PartyCells(self, Tail(ys))

\* the count taken over df['Party'] in place of df['Party'].unique(): every
\* row of the party adds one
PartyRowCount(self, party) ==
  SumSeq([i \in 1..Len(self.years) |->
            Cardinality(RowsWhere(self.data_by_year[self.years[i]], "Party", party))])

\* party_year_count[party]; a nan of df['Party'].unique() is a key of its
\* own in every year and never reaches 2
PartyYearCount(self, party) ==
  Cardinality({y \in DOMAIN self.data_by_year :
                 RowsWhere(self.data_by_year[y], "Party", party) # {}})

get_party_trends(self) ==
  IF LacksColumn(self, "Party") THEN KeyError
  ELSE LET major(party) == PartyYearCount(self, party) >= 2
           major_parties == SelectSeq(Dedup(PartyCells(self, DictOrder(self)), {}), major)
       IN [years |-> self.years,
           parties |-> major_parties,
           seat_trends |->
             [party \in Range(major_parties) |->
                [i \in 1..Len(self.years) |->
                   Seats(self.data_by_year[self.years[i]], party)]]]

\* one pass of the loop of get_state_data
StateYear(df, year, state, sd) ==
  IF "State" \notin df.columns \/ RowsWhere(df, "State", state) = {} THEN sd
  ELSE LET state_rows == RowsWhere(df, "State", state)
           years == Append(sd.years, year)
           party_seats == ValueCounts(df, "Party", state_rows)
           year_index == IndexOf(years, year)
           old(party) == IF party \in DOMAIN sd.party_seats
                         THEN sd.party_seats[party]
                         ELSE [i \in 1..Len(years) |-> 0]
       IN [state |-> state,
           years |-> years,
           party_seats |->
             [party \in DOMAIN sd.party_seats \cup DOMAIN party_seats |->
                IF party \in DOMAIN party_seats
                THEN [PadTo(old(party), year_index, 0)
                        EXCEPT ![year_index] = party_seats[party]]
                ELSE sd.party_seats[party]],
           turnout |-> Append(sd.turnout, TurnoutMean(df, state_rows))]

RECURSIVE StateLoop(_, _, _, _)
StateLoop(self, state, ys, sd) ==
  IF ys = <<>> THEN sd
  ELSE StateLoop(self, state, Tail(ys),
                 StateYear(self.data_by_year[Head(ys)], Head(ys), state, sd))

get_state_data(self, state) ==
  IF \E y \in DOMAIN self.data_by_year :
       /\ "State" \in self.data_by_year[y].columns
       /\ RowsWhere(self.data_by_year[y], "State", state) # {}
       /\ "Party" \notin self.data_by_year[y].columns
  THEN KeyError
  ELSE StateLoop(self, state, self.years,
                 [state |-> state, years |-> <<>>,
                  party_seats |-> [party \in {} |-> <<>>], turnout |-> <<>>])

get_all_states_data(self) ==
  [states |-> self.states,
   years |-> self.years,
   data |-> [state \in Range(self.states) |-> get_state_data(self, state)]]

\* rows['Votes'].str.replace(',', '').astype(int) raises: AttributeError on
\* a numeric column, ValueError on a NaN cell or a cell that is no integer
VotesRaise(df, idx) ==
  \/ ~IsStrColumn(df, "Votes")
  \/ \E i \in idx : ~IntParses(df.rows[i]["Votes"])

RECURSIVE VoteSum(_, _)
\* rows['Votes'].str.replace(',', '').astype(int).sum()
VoteSum(df, idx) ==
  IF idx = {} THEN 0
  ELSE LET i == CHOOSE j \in idx : TRUE
       IN IntOf(DropCommas(df.rows[i]["Votes"])) + VoteSum(df, idx \ {i})

\* the vote share appended for one party and year
VoteShare(df, state_rows, party_rows) ==
  IF "Votes" \notin df.columns THEN Num(0, 1)
  ELSE IF VotesRaise(df, party_rows) \/ VotesRaise(df, state_rows) THEN Num(0, 1)
  ELSE IF VoteSum(df, state_rows) > 0
       THEN RoundedPercent(VoteSum(df, party_rows), VoteSum(df, state_rows))
       ELSE Num(0, 1)

\* trend_data['years']: the loaded years in which the state has a row
StateYears(self, state) ==
  LET present(year) ==
        /\ "State" \in self.data_by_year[year].columns
        /\ RowsWhere(self.data_by_year[year], "State", state) # {}
  IN SelectSeq(self.years, present)

\* the strings of parties_in_state
StatePartyStrings(self, state) ==
  UNION {{self.data_by_year[y].rows[i]["Party"] :
            i \in RowsWhere(self.data_by_year[y], "State", state)} \ {NaN} :
           y \in Range(StateYears(self, state))}

\* the nans of parties_in_state: unique() hands out one for every year in
\* which a row of the state has no party
StatePartyNaNs(self, state) ==
  Cardinality({y \in Range(StateYears(self, state)) :
                 \E i \in RowsWhere(self.data_by_year[y], "State", state) :
                   self.data_by_year[y].rows[i]["Party"] = NaN})

\* a nan key stands for every nan of active_parties: their series are equal
get_state_party_trends(self, state, party) ==
  LET years == StateYears(self, state)
      strings == StatePartyStrings(self, state)
      nans == StatePartyNaNs(self, state)
      active_parties ==
        IF party # "" /\ party \in strings THEN <<party>>
        ELSE IF strings # {} THEN SortedList(strings)
        ELSE [i \in 1..nans |-> NaN]
      rows(i) == RowsWhere(self.data_by_year[years[i]], "State", state)
      won(i, name) == rows(i) \cap RowsWhere(self.data_by_year[years[i]], "Party", name)
  IN IF \E y \in Range(years) : "Party" \notin self.data_by_year[y].columns
     THEN KeyError
     ELSE IF ~(party # "" /\ party \in strings) /\ strings # {} /\ nans > 0
     THEN [raised |-> "TypeError"]
     ELSE [state |-> state,
           years |-> years,
           parties |-> active_parties,
           seat_trends |->
             [name \in Range(active_parties) |->
                [i \in 1..Len(years) |-> Cardinality(won(i, name))]],
           vote_share_trends |->
             [name \in Range(active_parties) |->
                [i \in 1..Len(years) |->
                   VoteShare(self.data_by_year[years[i]], rows(i), won(i, name))]]]

\* pd.to_numeric(df['Margin %'].str.rstrip('%'), errors='coerce') raises:
\* AttributeError on a numeric column; the caller tests for the column first
MarginRaises(df) == ~IsStrColumn(df, "Margin %")

\* the rows whose cell to_numeric turns into a number; every other cell
\* becomes NaN
MarginRows(df) ==
  {i \in AllRows(df) : /\ df.rows[i]["Margin %"] # NaN
                       /\ RStripPercent(df.rows[i]["Margin %"]) \in FloatTexts}

\* margin_column at a row of MarginRows, in tenths
MarginAt(df, i) == FloatOf(RStripPercent(df.rows[i]["Margin %"]))

\* one pass of the loop of get_win_margin_data
MarginYear(df, year, md) ==
  IF "Margin %" \notin df.columns \/ MarginRaises(df) THEN md
  ELSE [years |-> Append(md.years, year),
        avg_margin |->
          Append(md.avg_margin, Mean(PercentValues(df, "Margin %", MarginRows(df)))),
        close_contests |->
          Append(md.close_contests,
                 Cardinality({i \in MarginRows(df) : MarginAt(df, i) < 10})),
        landslide_wins |->
          Append(md.landslide_wins,
                 Cardinality({i \in MarginRows(df) : MarginAt(df, i) > 200}))]

RECURSIVE MarginLoop(_, _, _)
MarginLoop(self, ys, md) ==
  IF ys = <<>> THEN md
  ELSE MarginLoop(self, Tail(ys), MarginYear(self.data_by_year[Head(ys)], Head(ys), md))

get_win_margin_data(self) ==
  MarginLoop(self, self.years,
             [years |-> <<>>, avg_margin |-> <<>>,
              close_contests |-> <<>>, landslide_wins |-> <<>>])

\* round(x, 2) of a mean; a nan stays a nan
Round2(x) ==
  IF x.k # "num" THEN x
  ELSE LET q == (x.n * 100) \div x.d
           r == (x.n * 100) % x.d
           h == IF 2 * r > x.d THEN q + 1
                ELSE IF 2 * r < x.d THEN q
                ELSE IF q % 2 = 0 THEN q ELSE q + 1
       IN Num(h, 100)

\* what one year appends to turnout_by_year for the rows type_rows
TypeTurnout(df, type_rows) ==
  IF "Type" \notin df.columns \/ type_rows = {} THEN None
  ELSE IF "Turnout" \notin df.columns THEN None
  ELSE IF PercentRaises(df, "Turnout", type_rows) THEN None
  ELSE Round2(Mean(PercentValues(df, "Turnout", type_rows)))

\* the rows of a year of the type ctype, none without the column
TypeRowsOf(df, ctype) ==
  IF "Type" \in df.columns THEN RowsWhere(df, "Type", ctype) ELSE {}

\* type_data['data'][ctype]
TypeData(self, ctype) ==
  LET df(i) == self.data_by_year[self.years[i]]
      counts(i) == ValueCounts(df(i), "Party", TypeRowsOf(df(i), ctype))
      parties == UNION {DOMAIN counts(i) : i \in 1..Len(self.years)}
  IN [seats_by_year |->
        [i \in 1..Len(self.years) |-> Cardinality(TypeRowsOf(df(i), ctype))],
      party_performance |->
        [party \in parties |->
           [i \in 1..Len(self.years) |->
              IF party \in DOMAIN counts(i) THEN counts(i)[party] ELSE 0]],
      turnout_by_year |->
        [i \in 1..Len(self.years) |-> TypeTurnout(df(i), TypeRowsOf(df(i), ctype))]]

\* a nan key stands for every nan of selected_types: their data are equal
get_constituency_type_data(self, constituency_type) ==
  IF SortRaises(self.data_by_year, "Type") THEN [raised |-> "TypeError"]
  ELSE LET all_types == SortedIndex(self.data_by_year, "Type")
           selected_types ==
             IF constituency_type # "" /\ constituency_type \in Range(all_types)
             THEN <<constituency_type>>
             ELSE all_types
       IN IF \E y \in DOMAIN self.data_by_year, ctype \in Range(selected_types) :
               /\ TypeRowsOf(self.data_by_year[y], ctype) # {}
               /\ "Party" \notin self.data_by_year[y].columns
          THEN KeyError
          ELSE [years |-> self.years,
                types |-> selected_types,
                data |-> [ctype \in Range(selected_types) |-> TypeData(self, ctype)]]

\* results[...][:SearchLimit]
SearchLimit == 10

\* list(S) of a set of strings: the order of the hashes of the strings,
\* which the interpreter fixes at its start
HashOrder(S) ==
  LET sorted == SortedList(S)
  IN IF hash_seed = 0 THEN sorted
     ELSE [i \in 1..Len(sorted) |-> sorted[Len(sorted) + 1 - i]]

\* the distinct cells of df[col] that
\* df[col].str.lower().str.contains(query, na=False) keeps
Matching(df, col, query) ==
  {df.rows[i][col] : i \in {j \in AllRows(df) :
     df.rows[j][col] # NaN /\ ReSearch(query, Lower(df.rows[j][col]))}}

\* c.lower() raises AttributeError on a nan of self.constituencies, and
\* df[col].str on a column of a numeric dtype
search(self, query) ==
  LET is(c) == Contains(Lower(c), Lower(query))
      matching_constituencies == SelectSeq(self.constituencies, is)
      searched(col) == {y \in DOMAIN self.data_by_year : col \in self.data_by_year[y].columns}
      candidates == UNION {Matching(self.data_by_year[y], "Winning Candidate", Lower(query)) :
                             y \in searched("Winning Candidate")}
      parties == UNION {Matching(self.data_by_year[y], "Party", Lower(query)) :
                          y \in searched("Party")}
      cut(list) == SubSeq(list, 1, IF Len(list) < SearchLimit THEN Len(list) ELSE SearchLimit)
  IN IF \/ NaN \in Range(self.constituencies)
        \/ \E col \in {"Winning Candidate", "Party"} : \E y \in searched(col) :
             ~IsStrColumn(self.data_by_year[y], col)
     THEN [raised |-> "AttributeError"]
     ELSE [constituencies |-> cut(matching_constituencies),
           candidates |-> cut(HashOrder(candidates)),
           parties |-> cut(HashOrder(parties))]

(***************************************************************************)
(* The routes.                                                             *)
(***************************************************************************)
Years == Serve("get_years", "", get_years(data_processor))

Constituencies == Serve("get_constituencies", "", get_constituencies(data_processor))

Parties == Serve("get_parties", "", get_parties(data_processor))

States == Serve("get_states", "", get_states(data_processor))

\* arguments of the requests
UnknownYear == "2099"

YearArgs == ConfiguredYears \cup {UnknownYear}

ConstituencyArgs == {"Agra", "agra", "Zira"}

PartyArgs == {"INC", "BJP", "XYZ"}

Election == \E year \in YearArgs :
  Serve("get_election_data", year, get_election_data(data_processor, year))

Constituency == \E name \in ConstituencyArgs :
  Serve("get_constituency_data", name, get_constituency_data(data_processor, name))

Party == \E name \in PartyArgs :
  Serve("get_party_data", name, get_party_data(data_processor, name))

StateArgs == {"Bihar", "Goa", "Zira"}

\* the lists of up to MaxArgs different items of S
ListsOf(S) ==
  {l \in SeqsUpTo(S, MaxArgs) : \A i, j \in 1..Len(l) : i # j => l[i] # l[j]}

\* the lists of years a comparison may ask for
YearLists == ListsOf({csv_files[1], csv_files[Len(csv_files)], UnknownYear})

PartyLists == ListsOf({"INC", "XYZ"})

CompareYears == \E years \in YearLists :
  Serve("compare_years", years, compare_years(data_processor, years))

CompareParties == \E parties \in PartyLists :
  Serve("compare_parties", parties, compare_parties(data_processor, parties))

Turnout == Serve("get_turnout_data", "", get_turnout_data(data_processor))

PartyTrends == Serve("get_party_trends", "", get_party_trends(data_processor))

StateAnalysis == \E state \in StateArgs :
  Serve("get_state_data", state, get_state_data(data_processor, state))

AllStates == Serve("get_all_states_data", "", get_all_states_data(data_processor))

WinMargin == Serve("get_win_margin_data", "", get_win_margin_data(data_processor))

\* the type of a request for the constituency types; '' when it names none
TypeArgs == {"", "GEN", "XYZ"}

ConstituencyTypes == \E constituency_type \in TypeArgs :
  Serve("get_constituency_type_data", constituency_type,
        get_constituency_type_data(data_processor, constituency_type))

\* the queries of a search; the route refuses an empty one
Queries == {"ra", "RA", "r.o", "nc", "."}

Search == \E query \in Queries :
  Serve("search", query, search(data_processor, query))

\* the state and party of a request for the trends of a state; party is ''
\* when the request names none
StatePartyArgs ==
  { <<"Bihar", "">>, <<"Bihar", "INC">>, <<"Bihar", "XYZ">>, <<"Zira", "">> }

StatePartyTrends == \E a \in StatePartyArgs :
  Serve("get_state_party_trends", a, get_state_party_trends(data_processor, a[1], a[2]))

Next ==
  \/ InitDataProcessor
  \/ FallbackDataProcessor
  \/ Respond
  \/ Years
  \/ Constituencies
  \/ Parties
  \/ States
  \/ Election
  \/ Constituency
  \/ Party
  \/ CompareYears
  \/ CompareParties
  \/ Turnout
  \/ PartyTrends
  \/ StateAnalysis
  \/ AllStates
  \/ StatePartyTrends
  \/ WinMargin
  \/ ConstituencyTypes
  \/ Search

Spec == Init /\ [][Next]_vars

(***************************************************************************)
(* The claims.                                                             *)
(***************************************************************************)
\* the explicit "unavailable" marker of a mean: None, or the nan of a mean
\* over no value
Unavailable(v) == v.k \in {"None", "nan"}

\* the rows of df whose turnout parses as a percentage
ParsingRows(df, idx) ==
  {i \in idx : /\ df.rows[i]["Turnout"] # NaN
               /\ RStripPercent(df.rows[i]["Turnout"]) \in FloatTexts}

\* the mean turnout over the rows of idx that parse, None when none does
ParsedMean(df, idx) ==
  IF ParsingRows(df, idx) = {} THEN None
  ELSE Mean(PercentValues(df, "Turnout", ParsingRows(df, idx)))

SameMean(v, w) == IF Unavailable(w) THEN Unavailable(v) ELSE v = w

RECURSIVE SumValues(_, _)
SumValues(f, keys) ==
  IF keys = {} THEN 0
  ELSE LET key == CHOOSE x \in keys : TRUE
       IN f[key] + SumValues(f, keys \ {key})

Answered(op) == pc = "serving" /\ result.op = op

Tables == data_processor.data_by_year

\* C1: in the answer of get_turnout_data, avg_turnout is as long as years,
\* every state series is as long as years, and position i of a state series
\* is the state's mean turnout in years[i], or the unavailable marker when
\* the state has no turnout that year -- also for a state that has rows in
\* earlier years only.
C1_TurnoutSeriesAligned ==
  Answered("get_turnout_data") =>
    LET td == result.val
    IN /\ Len(td.avg_turnout) = Len(td.years)
       /\ \A st \in DOMAIN td.state_turnout :
            /\ Len(td.state_turnout[st]) = Len(td.years)
            /\ \A i \in 1..Len(td.years) :
                 LET df == Tables[td.years[i]]
                 IN SameMean(td.state_turnout[st][i],
                             ParsedMean(df, RowsWhere(df, "State", st)))

\* C2: the answer of get_state_data(s) lists exactly the loaded years in
\* which s has a row, in year order, a turnout list of that length, and for
\* every party a series of that length whose position i is the party's seat
\* count in s in years[i] (0 when it won none that year).
C2_StateSeriesAligned ==
  Answered("get_state_data") =>
    LET sd == result.val
        state == result.arg
        rows(year) == RowsWhere(Tables[year], "State", state)
        present(year) == rows(year) # {}
    IN /\ sd.years = SelectSeq(data_processor.years, present)
       /\ Len(sd.turnout) = Len(sd.years)
       /\ \A party \in DOMAIN sd.party_seats :
            /\ Len(sd.party_seats[party]) = Len(sd.years)
            /\ \A i \in 1..Len(sd.years) :
                 sd.party_seats[party][i] =
                   Cardinality({r \in rows(sd.years[i]) :
                                  Tables[sd.years[i]].rows[r]["Party"] = party})

\* C3: for a loaded year, the values of party_seats in the answer of
\* get_election_data sum to the number of rows of the year's table, rows
\* with a missing party included.
C3_PartySeatsSumToRows ==
  (Answered("get_election_data") /\ result.arg \in DOMAIN Tables) =>
    SumValues(result.val.party_seats, DOMAIN result.val.party_seats)
      = Len(Tables[result.arg].rows)

\* C4: for a loaded year, avg_turnout in the answer of get_election_data is
\* the mean over exactly the rows whose turnout parses; a missing or
\* malformed turnout leaves the mean of the other rows as it is, and the
\* answer is the unavailable marker only when no row parses.
C4_TurnoutMeanOverParsingRows ==
  (Answered("get_election_data") /\ result.arg \in DOMAIN Tables) =>
    LET df == Tables[result.arg]
    IN SameMean(result.val.avg_turnout, ParsedMean(df, AllRows(df)))

\* C5: a query is answered only by a DataProcessor whose construction
\* completed, and once a construction has raised no query is answered.
C5_NoAnswerAfterFailedConstruction ==
  result.op # "none" => (pc = "serving" /\ data_processor.bound /\ ~init_error)

C7_PartyEntryPerYear ==
  Answered("get_party_data") =>
    LET perf == result.val.performance
        years == data_processor.years
    IN /\ Len(perf) = Len(years)
       /\ \A i \in 1..Len(years) :
            LET df == Tables[years[i]]
                won == Cardinality({r \in AllRows(df) : df.rows[r]["Party"] = result.arg})
                e == perf[i]
            IN /\ e.year = years[i]
               /\ e.seats_won = won
               /\ e.total_seats = Len(df.rows)
               /\ Len(e.constituencies) = won
               /\ won = 0 => e.percentage.n = 0
               /\ won > 0 =>
                    \* a number of hundredths within 0.005 of the quotient
                    /\ 100 % e.percentage.d = 0
                    /\ LET diff == e.percentage.n * Len(df.rows)
                                      - won * 100 * e.percentage.d
                       IN (IF diff < 0 THEN -diff ELSE diff) * 200
                            <= e.percentage.d * Len(df.rows)

C7_Witness ==
  /\ Answered("get_party_data")
  /\ \E i, j \in 1..Len(result.val.performance) :
       /\ result.val.performance[i].seats_won = 0
       /\ result.val.performance[i].total_seats > 0
       /\ result.val.performance[j].seats_won = 2
       /\ result.val.performance[j].total_seats = 3
       /\ result.val.performance[j].percentage = Num(6667, 100)

\* C8: the answer of get_constituency_data(c) has, in ascending year order,
\* one entry for each loaded year with a row named exactly c and none for
\* another year, each built from the first such row of its table.
C8_ConstituencyEntryPerMatchingYear ==
  Answered("get_constituency_data") =>
    LET res == result.val.results
        matching(year) ==
          {r \in AllRows(Tables[year]) : Tables[year].rows[r]["PC Name"] = result.arg}
        has(year) == matching(year) # {}
        ys == SelectSeq(data_processor.years, has)
    IN /\ Len(res) = Len(ys)
       /\ \A i \in 1..Len(ys) :
            LET first == CHOOSE r \in matching(ys[i]) : \A q \in matching(ys[i]) : r <= q
                row == Tables[ys[i]].rows[first]
                \* the field of the row, '' when the table has no such column
                field(col) == IF col \in DOMAIN row THEN row[col] ELSE ""
            IN /\ res[i].year = ys[i]
               /\ res[i].winner = field("Winning Candidate")
               /\ res[i].party = field("Party")
               /\ res[i].votes = field("Votes")
               /\ res[i].margin = field("Margin")
               /\ res[i].margin_percent = field("Margin %")
               /\ res[i].turnout = field("Turnout")

C8_Witness ==
  /\ Answered("get_constituency_data")
  /\ \E y \in DOMAIN Tables :
       /\ Len(Tables[y].rows) = 2
       /\ Tables[y].rows[1]["PC Name"] = result.arg
       /\ Tables[y].rows[2]["PC Name"] = result.arg
       /\ Tables[y].rows[1]["Winning Candidate"] # Tables[y].rows[2]["Winning Candidate"]

\* C9: after construction years is ascending without duplicates, holds a
\* configured year exactly when its file exists in some directory, the
\* table of a year is the file of the first such directory, a year without a
\* file does not fail construction, and data_by_year has the years as keys.
C9_YearsAreTheFilesFound ==
  pc = "serving" =>
    LET years == data_processor.years
        dirs(y) == {d \in possible_data_dirs : fs[y][d].exists}
    IN /\ \A i, j \in 1..Len(years) : i < j => StrLess(years[i], years[j])
       /\ \A y \in ConfiguredYears : y \in Range(years) <=> dirs(y) # {}
       /\ Range(years) \subseteq ConfiguredYears
       /\ DOMAIN Tables = Range(years)
       /\ \A y \in Range(years) :
            LET d == CHOOSE e \in dirs(y) : \A f \in dirs(y) : e <= f
            IN /\ Tables[y].columns = {Strip(h) : h \in fs[y][d].header}
               /\ Len(Tables[y].rows) = Len(fs[y][d].rows)
               /\ \A r \in 1..Len(fs[y][d].rows), h \in fs[y][d].header :
                    Tables[y].rows[r][Strip(h)] = fs[y][d].rows[r][h]

C9_Witness ==
  /\ pc = "serving"
  /\ \E y, z \in ConfiguredYears :
       /\ \A d \in possible_data_dirs : ~fs[y][d].exists
       /\ fs[z][1].exists /\ fs[z][2].exists
       /\ fs[z][1] # fs[z][2]

\* C10: compare_years answers a request naming a year that is not loaded
\* with the error mapping alone, however many of its other years are loaded.
C10_CompareYearsRefusesUnknownYear ==
  (Answered("compare_years")
     /\ \E i \in 1..Len(result.arg) : result.arg[i] \notin Range(data_processor.years))
  => DOMAIN result.val = {"error"}

C10_Witness ==
  /\ Answered("compare_years")
  /\ Len(result.arg) = 2
  /\ result.arg[1] \in Range(data_processor.years)
  /\ result.arg[2] \notin Range(data_processor.years)
  /\ DOMAIN result.val = {"error"}

\* a name that occurs in no loaded table
UnknownName(list, name) == name \notin Range(list)

\* C11: a query naming a year, party or state that does not occur in the
\* loaded tables (get_election_data, get_party_data, compare_parties,
\* get_state_data, get_state_party_trends) is answered with an error mapping
\* that carries a message, and with nothing raised.
C11_UnknownNameGetsError ==
  LET self == data_processor
      unknown ==
        \/ Answered("get_election_data") /\ UnknownName(self.years, result.arg)
        \/ Answered("get_party_data") /\ UnknownName(self.parties, result.arg)
        \/ Answered("compare_parties")
             /\ \E i \in 1..Len(result.arg) : UnknownName(self.parties, result.arg[i])
        \/ Answered("get_state_data") /\ UnknownName(self.states, result.arg)
        \/ Answered("get_state_party_trends")
             /\ \/ UnknownName(self.states, result.arg[1])
                \/ result.arg[2] # "" /\ UnknownName(self.parties, result.arg[2])
  IN unknown => DOMAIN result.val = {"error"}

\* the mean of the margins of the rows idx of df, nan over no row
MarginMean(df, idx) ==
  LET cells == SelectSeqIdx(Column(df, "Margin %"), idx)
  IN Mean([i \in 1..Len(cells) |-> FloatOf(RStripPercent(cells[i]))])

\* C12: in the answer of get_win_margin_data the four series are equally
\* long; years lists exactly the loaded years whose table has a margin
\* column; for such a year close_contests counts the rows whose margin
\* parses to less than 1, landslide_wins those above 20, avg_margin is the
\* mean over the rows that parse, and a row that does not parse counts in
\* none of the three.
C12_MarginSeriesPerYearWithColumn ==
  Answered("get_win_margin_data") =>
    LET md == result.val
        has(year) == "Margin %" \in Tables[year].columns
    IN /\ Len(md.avg_margin) = Len(md.years)
       /\ Len(md.close_contests) = Len(md.years)
       /\ Len(md.landslide_wins) = Len(md.years)
       /\ md.years = SelectSeq(data_processor.years, has)
       /\ \A i \in 1..Len(md.years) :
            LET df == Tables[md.years[i]]
                parsed == {r \in AllRows(df) :
                             /\ df.rows[r]["Margin %"] # NaN
                             /\ RStripPercent(df.rows[r]["Margin %"]) \in FloatTexts}
            IN /\ md.close_contests[i] =
                    Cardinality({r \in parsed : MarginAt(df, r) < 10})
               /\ md.landslide_wins[i] =
                    Cardinality({r \in parsed : MarginAt(df, r) > 200})
               /\ SameMean(md.avg_margin[i], MarginMean(df, parsed))

\* the types that occur as a present field of a row of a loaded table
DiscoveredTypes ==
  UNION {{Tables[y].rows[r]["Type"] : r \in AllRows(Tables[y])} \ {NaN} :
           y \in {z \in DOMAIN Tables : "Type" \in Tables[z].columns}}

\* C13: get_constituency_type_data(t) answers with the selected types: t
\* alone when t is given and discovered, else every discovered type in
\* ascending order; for a selected type seats_by_year, turnout_by_year and
\* every party series are as long as years, position i holding the rows of
\* the type in years[i] (0 without the type column), the party's seats
\* among them, and the unavailable marker for the turnout when the column
\* is absent, the type has no row that year, or a turnout does not parse.
C13_TypeSeriesAlignedToYears ==
  Answered("get_constituency_type_data") =>
    LET td == result.val
        years == data_processor.years
        rows(i, ctype) ==
          IF "Type" \in Tables[years[i]].columns
          THEN {r \in AllRows(Tables[years[i]]) : Tables[years[i]].rows[r]["Type"] = ctype}
          ELSE {}
    IN /\ "raised" \notin DOMAIN td
       /\ td.types = IF result.arg # "" /\ result.arg \in DiscoveredTypes
                     THEN <<result.arg>>
                     ELSE SortedList(DiscoveredTypes)
       /\ DOMAIN td.data = Range(td.types)
       /\ \A ctype \in DOMAIN td.data :
            LET d == td.data[ctype]
            IN /\ Len(d.seats_by_year) = Len(years)
               /\ Len(d.turnout_by_year) = Len(years)
               /\ \A i \in 1..Len(years) :
                    /\ d.seats_by_year[i] = Cardinality(rows(i, ctype))
                    /\ ( \/ rows(i, ctype) = {}
                         \/ \E r \in rows(i, ctype) :
                              /\ Tables[years[i]].rows[r]["Turnout"] # NaN
                              /\ RStripPercent(Tables[years[i]].rows[r]["Turnout"])
                                    \notin FloatTexts )
                       => Unavailable(d.turnout_by_year[i])
               /\ \A party \in DOMAIN d.party_performance :
                    /\ Len(d.party_performance[party]) = Len(years)
                    /\ \A i \in 1..Len(years) :
                         d.party_performance[party][i] =
                           Cardinality({r \in rows(i, ctype) :
                                          Tables[years[i]].rows[r]["Party"] = party})

\* the loaded years in which party is the winning party of some row
YearsWon(party) ==
  {y \in DOMAIN Tables : \E r \in AllRows(Tables[y]) : Tables[y].rows[r]["Party"] = party}

\* the parties that won a row in at least 2 loaded years; a missing party
\* field is no party
MajorParties ==
  {party \in UNION {{Tables[y].rows[r]["Party"] : r \in AllRows(Tables[y])} :
                      y \in DOMAIN Tables} \ {NaN} :
     Cardinality(YearsWon(party)) >= 2}

NoDuplicates(list) == \A i, j \in 1..Len(list) : i # j => list[i] # list[j]

\* C15: search answers two queries that are equal once lower-cased with the
\* same three lists; each list has at most 10 items and no item twice, holds
\* only names of which the lower-cased query is a substring once they are
\* lower-cased, and constituencies keeps the order of the constituency list.
C15_SearchIsCaseFoldedSubstring ==
  (Answered("search") /\ "raised" \notin DOMAIN result.val) =>
    LET res == result.val
        lists == <<res.constituencies, res.candidates, res.parties>>
    IN /\ \A q \in Queries :
            Lower(q) = Lower(result.arg) => search(data_processor, q) = res
       /\ \A k \in 1..3 :
            /\ Len(lists[k]) <= 10
            /\ NoDuplicates(lists[k])
            /\ \A i \in 1..Len(lists[k]) :
                 Contains(Lower(lists[k][i]), Lower(result.arg))
       /\ \A i, j \in 1..Len(res.constituencies) :
            i < j => StrLess(res.constituencies[i], res.constituencies[j])

\* no configured year has a file in any directory
NoFiles == \A y \in ConfiguredYears, d \in possible_data_dirs : ~fs[y][d].exists

\* every collection of the answer val of op is empty; the list of parties
\* that compare_parties repeats from its request is no part of the data
EmptyAnswer(op, val) ==
  /\ "raised" \notin DOMAIN val
  /\ CASE op \in {"get_years", "get_constituencies", "get_parties", "get_states"} ->
            val = <<>>
       [] op = "get_constituency_data" -> val.results = <<>>
       [] op = "get_party_data" -> val.performance = <<>>
       [] op = "compare_parties" -> val.data = <<>>
       [] op = "get_turnout_data" ->
            val.years = <<>> /\ val.avg_turnout = <<>> /\ DOMAIN val.state_turnout = {}
       [] op = "get_win_margin_data" ->
            /\ val.years = <<>> /\ val.avg_margin = <<>>
            /\ val.close_contests = <<>> /\ val.landslide_wins = <<>>
       [] op = "search" ->
            val.constituencies = <<>> /\ val.candidates = <<>> /\ val.parties = <<>>
       [] op = "get_party_trends" ->
            val.years = <<>> /\ val.parties = <<>> /\ DOMAIN val.seat_trends = {}
       [] op = "get_state_data" ->
            val.years = <<>> /\ val.turnout = <<>> /\ DOMAIN val.party_seats = {}
       [] op = "get_all_states_data" ->
            val.states = <<>> /\ val.years = <<>> /\ DOMAIN val.data = {}
       [] op = "get_state_party_trends" ->
            /\ val.years = <<>> /\ val.parties = <<>>
            /\ DOMAIN val.seat_trends = {} /\ DOMAIN val.vote_share_trends = {}
       [] op = "get_constituency_type_data" ->
            val.years = <<>> /\ val.types = <<>> /\ DOMAIN val.data = {}
       [] OTHER -> TRUE

PresentValues(col) ==
  UNION {{Tables[y].rows[r][col] : r \in AllRows(Tables[y])} \ {NaN} :
           y \in {z \in DOMAIN Tables : col \in Tables[z].columns}}

\* C17: after construction the constituency, party and state lists are
\* ascending without duplicates and hold exactly the values that occur as a
\* present field of some row; a row with a missing constituency, party or
\* state adds nothing and does not make construction fail; get_states
\* returns the state list that get_all_states_data uses.
C17_IndexListsArePresentValues ==
  /\ ~DataProcessor(fs, FALSE).raised
  /\ pc = "serving" =>
       /\ data_processor.constituencies = SortedList(PresentValues("PC Name"))
       /\ data_processor.parties = SortedList(PresentValues("Party"))
       /\ data_processor.states = SortedList(PresentValues("State"))
  /\ Answered("get_states") => result.val = data_processor.states
  /\ Answered("get_all_states_data") => result.val.states = data_processor.states

====
